---- MODULE Spec2Model ----
(***************************************************************************)
(* Prompt Optimizer MCP: the two tools of src/server.py and the rule-based *)
(* rewriting and scoring of src/tools/optimize.py.                         *)
(*                                                                         *)
(* A Python str is a sequence of one-character strings.  The bullet        *)
(* U+2022 is the atom Bullet.  A Python value is a record [t, v]: t is the *)
(* type's name and v the characters of the str (of the repr otherwise).    *)
(* A float score is kept in thousandths, as an integer.                    *)
(***************************************************************************)
EXTENDS Integers, Sequences, FiniteSets

VARIABLES
    request,    \* the tool call received: [tool, a, b], a and b Python values
    unpadded,   \* the two str arguments before whitespace padding was put around them
    phase,      \* "pending" until the tool function has run, then "done"
    core,       \* what the core function did: returned a value or raised
    response,   \* what the tool function gave back to the host
    frame       \* per caller, the locals of its running core call

vars == <<request, unpadded, phase, core, response, frame>>

(***************************************************************************)
(* Characters and the str / re primitives the code uses.                   *)
(***************************************************************************)
Bullet == "U+2022"

Lowers == <<"a","b","c","d","e","f","g","h","i","j","k","l","m","n","o","p","q","r","s","t","u","v","w","x","y","z">>

Uppers == <<"A","B","C","D","E","F","G","H","I","J","K","L","M","N","O","P","Q","R","S","T","U","V","W","X","Y","Z">>

Digits == <<"0","1","2","3","4","5","6","7","8","9">>

Range(s) == {s[i] : i \in 1..Len(s)}

WordChars == Range(Lowers) \cup Range(Uppers) \cup Range(Digits) \cup {"_"}

SpaceChars == {" ", "\t", "\n", "\r"}

SentenceEnd == {".", "!", "?"}

\* \w of re (str patterns): letters, digits, underscore.
IsWord(c) == c \in WordChars

\* str.isspace, which is also \s of re and the separator of str.split().
IsSpace(c) == c \in SpaceChars

UpperChars == Range(Uppers)

LowerOf == [c \in UpperChars |-> Lowers[CHOOSE i \in 1..Len(Uppers) : Uppers[i] = c]]

\* str.lower on one character.
LowerChar(c) == IF c \in UpperChars THEN LowerOf[c] ELSE c

\* str.lower.
lower(s) == [i \in 1..Len(s) |-> LowerChar(s[i])]

RECURSIVE lstrip(_)
lstrip(s) == IF s # <<>> /\ IsSpace(Head(s)) THEN lstrip(Tail(s)) ELSE s

RECURSIVE rstrip(_)
rstrip(s) ==
    IF s # <<>> /\ IsSpace(s[Len(s)]) THEN rstrip(SubSeq(s, 1, Len(s) - 1)) ELSE s

\* str.strip().
strip(s) == rstrip(lstrip(s))

\* `lit in s`.
Contains(s, lit) ==
    \E i \in 1..(Len(s) - Len(lit) + 1) : SubSeq(s, i, i + Len(lit) - 1) = lit

\* s.startswith(lit).
StartsWith(s, lit) == Len(s) >= Len(lit) /\ SubSeq(s, 1, Len(lit)) = lit

\* s.count(lit) for a lit that cannot overlap itself.
Occurrences(s, lit) ==
    Cardinality({i \in 1..(Len(s) - Len(lit) + 1) : SubSeq(s, i, i + Len(lit) - 1) = lit})

RECURSIVE Join(_, _)
\* sep.join(parts).
Join(sep, parts) ==
    IF parts = <<>> THEN <<>>
    ELSE IF Len(parts) = 1 THEN parts[1]
    ELSE parts[1] \o sep \o Join(sep, Tail(parts))

IsWordAt(s, k) == k \in 1..Len(s) /\ IsWord(s[k])

\* \b just before the character at position i (i = Len(s) + 1: at the end).
Boundary(s, i) == IsWordAt(s, i - 1) # IsWordAt(s, i)

\* The literal, lower case, matches at position i under re.IGNORECASE.
LitAt(s, i, lit) ==
    /\ i + Len(lit) - 1 <= Len(s)
    /\ \A k \in 1..Len(lit) : LowerChar(s[i + k - 1]) = lit[k]

RECURSIVE SpaceRun(_, _)
\* The length of the run of whitespace that starts at position j.
SpaceRun(s, j) ==
    IF j <= Len(s) /\ IsSpace(s[j]) THEN 1 + SpaceRun(s, j + 1) ELSE 0

\* The two pattern shapes of the code: rf"\b{lit}\b" and r"\b{lit}\s+".
WholeWord(lit) == [lit |-> lit, tail |-> "b"]

ThenSpaces(lit) == [lit |-> lit, tail |-> "s+"]

\* The length of the match of pat that starts at position i, 0 when there is none.
MatchLen(pat, s, i) ==
    IF ~(LitAt(s, i, pat.lit) /\ Boundary(s, i)) THEN 0
    ELSE LET j == i + Len(pat.lit)
             n == SpaceRun(s, j)
         IN  IF pat.tail = "b"
             THEN (IF Boundary(s, j) THEN Len(pat.lit) ELSE 0)
             ELSE (IF n > 0 THEN Len(pat.lit) + n ELSE 0)

RECURSIVE SubFrom(_, _, _, _)
SubFrom(pat, repl, s, i) ==
    IF i > Len(s) THEN <<>>
    ELSE LET n == MatchLen(pat, s, i)
         IN  IF n > 0
             THEN repl \o SubFrom(pat, repl, s, i + n)
             ELSE <<s[i]>> \o SubFrom(pat, repl, s, i + 1)

\* re.sub(pat, repl, s, flags=re.IGNORECASE): every match, left to right, one pass.
re_sub(pat, repl, s) == SubFrom(pat, repl, s, 1)

RECURSIVE CountFrom(_, _, _)
CountFrom(pat, s, i) ==
    IF i > Len(s) THEN 0
    ELSE LET n == MatchLen(pat, s, i)
         IN  IF n > 0 THEN 1 + CountFrom(pat, s, i + n) ELSE CountFrom(pat, s, i + 1)

\* len(re.findall(pat, s, re.IGNORECASE)).
re_count(pat, s) == CountFrom(pat, s, 1)

RECURSIVE SplitFrom(_, _, _)
SplitFrom(s, i, cur) ==
    IF i > Len(s) THEN <<cur>>
    ELSE IF s[i] \in SentenceEnd
         THEN IF i < Len(s) /\ s[i + 1] \in SentenceEnd
              THEN SplitFrom(s, i + 1, cur)
              ELSE <<cur>> \o SplitFrom(s, i + 1, <<>>)
         ELSE SplitFrom(s, i + 1, Append(cur, s[i]))

\* re.split(r"[.!?]+", s): the pieces between the runs of sentence punctuation.
re_split(s) == SplitFrom(s, 1, <<>>)

NonEmpty(s) == s # <<>>

\* [s.strip() for s in sentences if s.strip()] over re.split.
split_sentences(raw_prompt) ==
    LET pieces == re_split(raw_prompt)
    IN  SelectSeq([i \in 1..Len(pieces) |-> strip(pieces[i])], NonEmpty)

(***************************************************************************)
(* Python values and the outcome of a call.                                *)
(***************************************************************************)
Str(s) == [t |-> "str", v |-> s]

IsStr(x) == x.t = "str"

ReturnVariants(variants) == [kind |-> "return", variants |-> variants]

ReturnScore(score) == [kind |-> "return", score |-> score]

Raise(exc, msg) == [kind |-> "raise", exc |-> exc, msg |-> msg]

creative == <<"c","r","e","a","t","i","v","e">>

precise == <<"p","r","e","c","i","s","e">>

fast == <<"f","a","s","t">>

ValidStyles == {creative, precise, fast}

(***************************************************************************)
(* optimize_prompt and its three style procedures.                         *)
(***************************************************************************)
enhanced_words == <<
    <<<<"w","r","i","t","e">>, <<"c","r","a","f","t"," ","a"," ","c","o","m","p","e","l","l","i","n","g">>>>,
    <<<<"c","r","e","a","t","e">>, <<"d","e","s","i","g","n"," ","a","n"," ","i","n","n","o","v","a","t","i","v","e">>>>,
    <<<<"e","x","p","l","a","i","n">>, <<"e","l","a","b","o","r","a","t","e"," ","o","n"," ","t","h","e"," ","f","a","s","c","i","n","a","t","i","n","g">>>>,
    <<<<"d","e","s","c","r","i","b","e">>, <<"p","a","i","n","t"," ","a"," ","v","i","v","i","d"," ","p","i","c","t","u","r","e"," ","o","f">>>>,
    <<<<"a","n","a","l","y","z","e">>, <<"d","i","v","e"," ","d","e","e","p"," ","i","n","t","o"," ","t","h","e"," ","i","n","t","r","i","c","a","t","e">>>>,
    <<<<"h","e","l","p">>, <<"a","s","s","i","s","t"," ","w","i","t","h"," ","t","h","e"," ","r","e","m","a","r","k","a","b","l","e">>>>,
    <<<<"s","h","o","w">>, <<"d","e","m","o","n","s","t","r","a","t","e"," ","t","h","e"," ","e","x","t","r","a","o","r","d","i","n","a","r","y">>>>,
    <<<<"t","e","l","l">>, <<"s","h","a","r","e"," ","t","h","e"," ","c","a","p","t","i","v","a","t","i","n","g">>>> >>

engaging_start == <<"I","m","a","g","i","n","e"," ","y","o","u","'","r","e"," ","a","n"," ","e","x","p","e","r","t"," ","i","n"," ","t","h","i","s"," ","f","i","e","l","d","."," ">>

creative_modifier == <<"i","n"," ","a"," ","w","a","y"," ","t","h","a","t"," ","c","a","p","t","i","v","a","t","e","s"," ","a","n","d"," ","i","n","s","p","i","r","e","s">>

\* The table index the loop stops at: the first word with `word in variant1.lower()`,
\* 0 when the loop runs to its end.
SelectedVerb(raw_prompt) ==
    LET hits == {k \in 1..Len(enhanced_words) : Contains(lower(raw_prompt), enhanced_words[k][1])}
    IN  IF hits = {} THEN 0 ELSE CHOOSE k \in hits : \A h \in hits : k <= h

RECURSIVE SubFirstFrom(_, _, _, _)
SubFirstFrom(pat, repl, s, i) ==
    IF i > Len(s) THEN <<>>
    ELSE LET n == MatchLen(pat, s, i)
         IN  IF n > 0
             THEN repl \o SubSeq(s, i + n, Len(s))
             ELSE <<s[i]>> \o SubFirstFrom(pat, repl, s, i + 1)

\* Faulty variant of the code: the substitution stops after the first match (count=1).
creative_variant1_count1(raw_prompt) ==
    LET k == SelectedVerb(raw_prompt)
    IN  IF k = 0 THEN raw_prompt
        ELSE SubFirstFrom(WholeWord(enhanced_words[k][1]), enhanced_words[k][2], raw_prompt, 1)

creative_variant1(raw_prompt) ==
    LET k == SelectedVerb(raw_prompt)
    IN  IF k = 0 THEN raw_prompt
        ELSE re_sub(WholeWord(enhanced_words[k][1]), enhanced_words[k][2], raw_prompt)

\* Faulty variant of the code: the second entry of engaging_starts is taken.
creative_variant2_second_start(raw_prompt) ==
    <<"P","i","c","t","u","r","e"," ","y","o","u","r","s","e","l","f"," ","a","s"," ","a"," ","m","a","s","t","e","r"," ","o","f"," ","t","h","i","s"," ","s","u","b","j","e","c","t","."," ">> \o raw_prompt

creative_variant2(raw_prompt) == engaging_start \o raw_prompt

creative_variant3(raw_prompt) == raw_prompt \o <<"."," ">> \o creative_modifier

_create_creative_variants(raw_prompt, sentences) ==
    IF sentences = <<>> THEN <<raw_prompt, raw_prompt, raw_prompt>>
    ELSE <<creative_variant1(raw_prompt), creative_variant2(raw_prompt),
           creative_variant3(raw_prompt)>>

redundant_patterns == <<
    ThenSpaces(<<"v","e","r","y">>), ThenSpaces(<<"q","u","i","t","e">>), ThenSpaces(<<"r","e","a","l","l","y">>),
    ThenSpaces(<<"a","c","t","u","a","l","l","y">>), ThenSpaces(<<"j","u","s","t">>), ThenSpaces(<<"s","i","m","p","l","y">>),
    ThenSpaces(<<"k","i","n","d"," ","o","f">>), ThenSpaces(<<"s","o","r","t"," ","o","f">>) >>

RECURSIVE RemoveFirstOfEach(_, _)
\* Faulty variant of the code: each pattern is removed once (count=1), not globally.
RemoveFirstOfEach(patterns, s) ==
    IF patterns = <<>> THEN s
    ELSE RemoveFirstOfEach(Tail(patterns), SubFirstFrom(Head(patterns), <<>>, s, 1))

RECURSIVE RemoveAll(_, _)
\* for pattern in patterns: s = re.sub(pattern, "", s, flags=re.IGNORECASE)
RemoveAll(patterns, s) ==
    IF patterns = <<>> THEN s
    ELSE RemoveAll(Tail(patterns), re_sub(Head(patterns), <<>>, s))

precise_variant1(raw_prompt) == RemoveAll(redundant_patterns, raw_prompt)

bullet_prefix == <<Bullet," ">>

bullet_separator == <<"\n",Bullet," ">>

\* Faulty variant of the code: the list is joined without the bullet before its first segment.
precise_variant2_no_prefix(raw_prompt, sentences) ==
    IF Len(sentences) > 1 THEN Join(bullet_separator, sentences) ELSE raw_prompt

precise_variant2(raw_prompt, sentences) ==
    IF Len(sentences) > 1
    THEN bullet_prefix \o Join(bullet_separator, sentences)
    ELSE raw_prompt

constraint_phrase == <<"B","e"," ","s","p","e","c","i","f","i","c"," ","a","n","d"," ","c","o","n","c","i","s","e",".">>

precise_variant3(raw_prompt) == raw_prompt \o <<" ">> \o constraint_phrase

_create_precise_variants(raw_prompt, sentences) ==
    IF sentences = <<>> THEN <<raw_prompt, raw_prompt, raw_prompt>>
    ELSE <<precise_variant1(raw_prompt), precise_variant2(raw_prompt, sentences),
           precise_variant3(raw_prompt)>>

short_synonyms == <<
    <<<<"u","t","i","l","i","z","e">>, <<"u","s","e">>>>,
    <<<<"i","m","p","l","e","m","e","n","t">>, <<"u","s","e">>>>,
    <<<<"d","e","m","o","n","s","t","r","a","t","e">>, <<"s","h","o","w">>>>,
    <<<<"i","l","l","u","s","t","r","a","t","e">>, <<"s","h","o","w">>>>,
    <<<<"e","l","a","b","o","r","a","t","e">>, <<"e","x","p","l","a","i","n">>>>,
    <<<<"c","o","m","p","r","e","h","e","n","s","i","v","e">>, <<"c","o","m","p","l","e","t","e">>>>,
    <<<<"s","u","b","s","e","q","u","e","n","t","l","y">>, <<"t","h","e","n">>>>,
    <<<<"f","u","r","t","h","e","r","m","o","r","e">>, <<"a","l","s","o">>>>,
    <<<<"a","d","d","i","t","i","o","n","a","l","l","y">>, <<"a","l","s","o">>>>,
    <<<<"n","e","v","e","r","t","h","e","l","e","s","s">>, <<"b","u","t">>>> >>

RECURSIVE ReplaceAll(_, _)
\* for long_word, short_word in table: s = re.sub(rf"\b{long_word}\b", short_word, s, ...)
ReplaceAll(table, s) ==
    IF table = <<>> THEN s
    ELSE ReplaceAll(Tail(table), re_sub(WholeWord(Head(table)[1]), Head(table)[2], s))

fast_variant1(raw_prompt) == ReplaceAll(short_synonyms, raw_prompt)

imperative_patterns == <<
    ThenSpaces(<<"p","l","e","a","s","e">>), ThenSpaces(<<"c","o","u","l","d"," ","y","o","u">>), ThenSpaces(<<"w","o","u","l","d"," ","y","o","u">>) >>

fast_variant2(raw_prompt) == RemoveAll(imperative_patterns, raw_prompt)

speed_indicator == <<"Q","u","i","c","k"," ","r","e","s","p","o","n","s","e",":"," ">>

fast_variant3(raw_prompt) == speed_indicator \o raw_prompt

_create_fast_variants(raw_prompt, sentences) ==
    IF sentences = <<>> THEN <<raw_prompt, raw_prompt, raw_prompt>>
    ELSE <<fast_variant1(raw_prompt), fast_variant2(raw_prompt), fast_variant3(raw_prompt)>>

raw_prompt_error == <<"r","a","w","_","p","r","o","m","p","t"," ","m","u","s","t"," ","b","e"," ","a"," ","s","t","r","i","n","g">>

style_error == <<"s","t","y","l","e"," ","m","u","s","t"," ","b","e"," ","o","n","e"," ","o","f",":"," ","'","c","r","e","a","t","i","v","e","'",","," ","'","p","r","e","c","i","s","e","'",","," ","'","f","a","s","t","'">>

\* Lines 42-47: the dispatch on the style, after validation.
dispatch_style(raw_prompt, sentences, style) ==
    IF style = creative THEN _create_creative_variants(raw_prompt, sentences)
    ELSE IF style = precise THEN _create_precise_variants(raw_prompt, sentences)
    ELSE _create_fast_variants(raw_prompt, sentences)

\* Faulty variant of the code: the empty-prompt shortcut is taken before the style is validated.
optimize_prompt_empty_first(raw_prompt, style) ==
    IF ~IsStr(raw_prompt) THEN Raise("TypeError", raw_prompt_error)
    ELSE LET stripped == strip(raw_prompt.v)
         IN  IF stripped = <<>> THEN ReturnVariants(<< <<>>, <<>>, <<>> >>)
             ELSE IF ~IsStr(style) \/ style.v \notin ValidStyles
                  THEN Raise("TypeError", style_error)
             ELSE ReturnVariants(dispatch_style(stripped, split_sentences(stripped), style.v))

optimize_prompt(raw_prompt, style) ==
    IF ~IsStr(raw_prompt) THEN Raise("TypeError", raw_prompt_error)
    ELSE IF ~IsStr(style) \/ style.v \notin ValidStyles
         THEN Raise("TypeError", style_error)
    ELSE LET stripped == strip(raw_prompt.v)
         IN  IF stripped = <<>> THEN ReturnVariants(<< <<>>, <<>>, <<>> >>)
             ELSE ReturnVariants(dispatch_style(stripped, split_sentences(stripped), style.v))

(***************************************************************************)
(* score_prompt.  A sub-score is an exact fraction <<numerator,            *)
(* denominator>>; the float comparisons of the length ratio with 0.5, 0.8  *)
(* and 1.2 are the same comparisons on the integer word counts.  round(x,  *)
(* 3) rounds the binary64 sum, which lies a rounding error off the exact   *)
(* value: away from a tie that is the nearest thousandth of the exact      *)
(* value, and at an exact tie (such as 582.5 thousandths) either           *)
(* neighbour, so there the direction tie_up is left open.                  *)
(***************************************************************************)
score_error == <<"B","o","t","h"," ","r","a","w","_","p","r","o","m","p","t"," ","a","n","d"," ","i","m","p","r","o","v","e","d","_","p","r","o","m","p","t"," ","m","u","s","t"," ","b","e"," ","s","t","r","i","n","g","s">>

\* len(s.split()): the whitespace-delimited tokens.
word_count(s) ==
    Cardinality({i \in 1..Len(s) : ~IsSpace(s[i]) /\ (i = 1 \/ IsSpace(s[i - 1]))})

\* The length buckets, in tenths: 0.3, 1.0, 0.8, 0.4.
length_score(raw_length, improved_length) ==
    IF raw_length = 0 THEN 10
    ELSE IF 2 * improved_length <= raw_length THEN 3
    ELSE IF 5 * improved_length <= 4 * raw_length THEN 10
    ELSE IF 5 * improved_length <= 6 * raw_length THEN 8
    ELSE 4

RECURSIVE WordRun(_, _)
\* The length of the run of word characters that starts at position i.
WordRun(s, i) == IF IsWordAt(s, i) THEN 1 + WordRun(s, i + 1) ELSE 0

\* set(re.findall(r"\b\w+\b", s.lower())): the maximal runs of word characters.
word_set(s) ==
    LET l == lower(s)
    IN  {SubSeq(l, i, i + WordRun(l, i) - 1) :
            i \in {k \in 1..Len(l) : IsWordAt(l, k) /\ ~IsWordAt(l, k - 1)}}

\* The Jaccard similarity of the two word sets.
keyword_score(raw_words, improved_words) ==
    IF raw_words = {} THEN <<1, 1>>
    ELSE <<Cardinality(raw_words \cap improved_words),
           Cardinality(raw_words \cup improved_words)>>

scoring_patterns == <<
    ThenSpaces(<<"v","e","r","y">>), ThenSpaces(<<"q","u","i","t","e">>), ThenSpaces(<<"r","e","a","l","l","y">>),
    ThenSpaces(<<"a","c","t","u","a","l","l","y">>), ThenSpaces(<<"j","u","s","t">>), ThenSpaces(<<"s","i","m","p","l","y">>),
    ThenSpaces(<<"k","i","n","d"," ","o","f">>), ThenSpaces(<<"s","o","r","t"," ","o","f">>), ThenSpaces(<<"p","l","e","a","s","e">>),
    ThenSpaces(<<"c","o","u","l","d"," ","y","o","u">>), ThenSpaces(<<"w","o","u","l","d"," ","y","o","u">>) >>

RECURSIVE CountAll(_, _)
\* sum(len(re.findall(pattern, s, re.IGNORECASE)) for pattern in patterns)
CountAll(patterns, s) ==
    IF patterns = <<>> THEN 0
    ELSE re_count(Head(patterns), s) + CountAll(Tail(patterns), s)

redundant_count(s) == CountAll(scoring_patterns, s)

Max(a, b) == IF a >= b THEN a ELSE b

Min(a, b) == IF a <= b THEN a ELSE b

\* Faulty variant of the code: the clarity formula is not clamped.
clarity_score_unclamped(raw_redundant, improved_redundant) ==
    IF raw_redundant = 0
    THEN (IF improved_redundant = 0 THEN <<10, 10>> ELSE <<7, 10>>)
    ELSE <<2 * raw_redundant - improved_redundant, 2 * raw_redundant>>

\* 1.0 / 0.7 without filler in the original, else 0.5 + ratio * 0.5 clamped to [0, 1].
clarity_score(raw_redundant, improved_redundant) ==
    IF raw_redundant = 0
    THEN (IF improved_redundant = 0 THEN <<10, 10>> ELSE <<7, 10>>)
    ELSE <<Max(0, Min(2 * raw_redundant, 2 * raw_redundant - improved_redundant)),
           2 * raw_redundant>>

\* n / d rounded to the nearest integer (n >= 0, d > 0); an exact tie goes up or down
\* as tie_up says.
RoundNearest(n, d, tie_up) ==
    LET q == n \div d
        r == n % d
    IN  IF 2 * r < d THEN q
        ELSE IF 2 * r > d THEN q + 1
        ELSE IF tie_up THEN q + 1 ELSE q

\* round(length * 0.4 + keyword * 0.3 + clarity * 0.3, 3), in thousandths.
final_score(length, keyword, clarity, tie_up) ==
    LET d == keyword[2] * clarity[2]
        n == 40 * length * d + 300 * keyword[1] * clarity[2] + 300 * clarity[1] * keyword[2]
    IN  IF n >= 0 THEN RoundNearest(n, d, tie_up) ELSE -RoundNearest(-n, d, ~tie_up)

\* Lines 204-273, on two strings that are not blank.
full_score(raw_prompt, improved_prompt, tie_up) ==
    final_score(length_score(word_count(raw_prompt), word_count(improved_prompt)),
                keyword_score(word_set(raw_prompt), word_set(improved_prompt)),
                clarity_score(redundant_count(raw_prompt), redundant_count(improved_prompt)),
                tie_up)

\* Faulty variant of the code: the full scoring runs on the arguments as given, not on the trimmed ones.
score_prompt_untrimmed(raw_prompt, improved_prompt, tie_up) ==
    IF ~IsStr(raw_prompt) \/ ~IsStr(improved_prompt) THEN Raise("TypeError", score_error)
    ELSE IF strip(raw_prompt.v) = <<>>
         THEN ReturnScore(IF strip(improved_prompt.v) # <<>> THEN 0 ELSE 1000)
    ELSE IF strip(improved_prompt.v) = <<>> THEN ReturnScore(0)
    ELSE ReturnScore(full_score(raw_prompt.v, improved_prompt.v, tie_up))

score_prompt(raw_prompt, improved_prompt, tie_up) ==
    IF ~IsStr(raw_prompt) \/ ~IsStr(improved_prompt) THEN Raise("TypeError", score_error)
    ELSE IF strip(raw_prompt.v) = <<>>
         THEN ReturnScore(IF strip(improved_prompt.v) # <<>> THEN 0 ELSE 1000)
    ELSE IF strip(improved_prompt.v) = <<>> THEN ReturnScore(0)
    ELSE ReturnScore(full_score(strip(raw_prompt.v), strip(improved_prompt.v), tie_up))

(***************************************************************************)
(* The tool functions of the server.                                       *)
(***************************************************************************)
Text(s) == [kind |-> "text", text |-> s]

Fault(exc) == [kind |-> "fault", exc |-> exc]

\* Faulty variant of the code: the handler is `except ValueError`.
ValueErrorOnly == {"ValueError"}

\* The classes `except Exception` catches, among those the core raises.
ExceptionClasses == {"TypeError"}

variant_label(i) == <<"V","a","r","i","a","n","t"," ">> \o <<Digits[i + 1]>> \o <<":"," ">>

\* "\n\n".join(f"Variant {i+1}: {v}" for i, v in enumerate(variants))
format_variants(variants) ==
    Join(<<"\n","\n">>, [i \in 1..Len(variants) |-> variant_label(i) \o variants[i]])

RECURSIVE DecimalDigits(_)
\* str(n) of an integer n >= 0.
DecimalDigits(n) ==
    IF n < 10 THEN <<Digits[n + 1]>> ELSE DecimalDigits(n \div 10) \o <<Digits[(n % 10) + 1]>>

\* f"{score:.3f}" of a score given in thousandths.
format_score(score) ==
    LET m == IF score < 0 THEN -score ELSE score
    IN  (IF score < 0 THEN <<"-">> ELSE <<>>) \o DecimalDigits(m \div 1000)
        \o <<".", Digits[((m \div 100) % 10) + 1], Digits[((m \div 10) % 10) + 1],
              Digits[(m % 10) + 1]>>

optimize_failed == <<"P","r","o","m","p","t"," ","o","p","t","i","m","i","z","a","t","i","o","n"," ","f","a","i","l","e","d",":"," ">>

scoring_failed == <<"P","r","o","m","p","t"," ","s","c","o","r","i","n","g"," ","f","a","i","l","e","d",":"," ">>

score_label == <<"E","f","f","e","c","t","i","v","e","n","e","s","s"," ","s","c","o","r","e",":"," ">>

\* The try / except of optimize_prompt_tool around the outcome of optimize_prompt.
optimize_prompt_tool(outcome) ==
    IF outcome.kind = "return" THEN Text(format_variants(outcome.variants))
    ELSE IF outcome.exc \in ExceptionClasses THEN Text(optimize_failed \o outcome.msg)
    ELSE Fault(outcome.exc)

\* The try / except of score_prompt_tool around the outcome of score_prompt.
score_prompt_tool(outcome) ==
    IF outcome.kind = "return" THEN Text(score_label \o format_score(outcome.score))
    ELSE IF outcome.exc \in ExceptionClasses THEN Text(scoring_failed \o outcome.msg)
    ELSE Fault(outcome.exc)

(***************************************************************************)
(* The requests the model checks: texts built from a few fragments.        *)
(***************************************************************************)
MaxCreativeFrags == 3

MaxFillerFrags == 4

MaxBulletFrags == 3

MaxFastFrags == 3

MaxEdgeFrags == 2

MaxRawFrags == 2

MaxImprovedFrags == 3

MaxPaddedRawFrags == 2

MaxPaddedImprovedFrags == 1

NCallers == 2

RECURSIVE Flatten(_)
Flatten(parts) == IF parts = <<>> THEN <<>> ELSE Head(parts) \o Flatten(Tail(parts))

\* Every concatenation of at most max fragments.
Texts(frags, max) == {Flatten(p) : p \in UNION {[1..n -> frags] : n \in 0..max}}

CreativeFrags == {<<"r","e","w","r","i","t","e">>, <<"W","r","i","t","e">>, <<"e","x","p","l","a","i","n">>, <<" ">>, <<".">>}

FillerFrags == {<<"k","i","n","d"," ">>, <<"s","o","r","t"," ","o","f"," ">>, <<"o","f"," ">>, <<"J","u","s","t","\t">>, <<"x">>}

BulletFrags == {<<"a","\n",Bullet," ","b">>, <<"c"," ","d">>, <<".">>, <<"!","?">>, <<" ">>}

FastFrags == {<<"U","t","i","l","i","z","e">>, <<"d","e","m","o","n","s","t","r","a","t","e">>, <<" ">>, <<"p","l","e","a","s","e"," ">>, <<"C","o","u","l","d"," ","y","o","u","\n">>, <<"x">>}

EdgeFrags == {<<" ">>, <<"\n">>, <<".">>, <<"w","r","i","t","e">>, <<"v","e","r","y"," ">>}

RawFrags == {<<"v","e","r","y"," ","j","u","s","t"," ">>, <<"a"," ">>, <<"b"," ">>}

ImprovedFrags == {<<"V","e","r","y"," ","j","u","s","t"," ">>, <<"A"," ">>, <<"b"," ">>}

PaddedRawFrags == {<<"K","i","n","d"," ","o","f">>, <<" ">>, <<"p","l","e","a","s","e">>}

PaddedImprovedFrags == {<<"v","e","r","y"," ">>, <<"a">>}

Pads == {<<>>, <<" ","\n">>}

NotStr == {[t |-> "int", v |-> <<"7">>], [t |-> "NoneType", v |-> <<"N","o","n","e">>]}

StyleValues ==
    {Str(s) : s \in ValidStyles \cup {<<"v","e","r","b","o","s","e">>, <<"C","r","e","a","t","i","v","e">>, <<>>}} \cup NotStr

Call(tool, a, b) == [tool |-> tool, a |-> a, b |-> b, ua |-> a, ub |-> b]

OptimizeCalls ==
    {Call("optimize_prompt_tool", Str(p), Str(creative)) : p \in Texts(CreativeFrags, MaxCreativeFrags)}
    \cup {Call("optimize_prompt_tool", Str(p), Str(precise)) :
            p \in Texts(FillerFrags, MaxFillerFrags) \cup Texts(BulletFrags, MaxBulletFrags)}
    \cup {Call("optimize_prompt_tool", Str(p), Str(fast)) : p \in Texts(FastFrags, MaxFastFrags)}
    \cup {Call("optimize_prompt_tool", Str(p), s) : p \in Texts(EdgeFrags, MaxEdgeFrags), s \in StyleValues}
    \cup {Call("optimize_prompt_tool", p, s) : p \in NotStr, s \in StyleValues}

ScoreCalls ==
    {Call("score_prompt_tool", Str(a), Str(b)) :
        a \in Texts(RawFrags, MaxRawFrags), b \in Texts(ImprovedFrags, MaxImprovedFrags)}
    \cup {[tool |-> "score_prompt_tool", a |-> Str(w[1] \o a \o w[2]), b |-> Str(w[3] \o b \o w[4]),
           ua |-> Str(a), ub |-> Str(b)] :
            a \in Texts(PaddedRawFrags, MaxPaddedRawFrags),
            b \in Texts(PaddedImprovedFrags, MaxPaddedImprovedFrags),
            w \in Pads \X Pads \X Pads \X Pads}
    \cup {Call("score_prompt_tool", a, b) : a \in NotStr \cup {Str(<<"a">>)}, b \in NotStr}
    \cup {Call("score_prompt_tool", a, Str(<<"a">>)) : a \in NotStr}

(***************************************************************************)
(* The server: one request is received, and its tool function runs.        *)
(***************************************************************************)
Callers == 1..NCallers

NoOutcome == [kind |-> "none"]

\* The frame of a caller that is not in a call; a call's locals start out unset.
IdleFrame ==
    [pc |-> "idle", fn |-> "none", a |-> Str(<<>>), b |-> Str(<<>>), tie_up |-> FALSE,
     raw_prompt |-> <<>>, improved_prompt |-> <<>>, sentences |-> <<>>, ret |-> NoOutcome]

Init ==
    /\ \E c \in OptimizeCalls \cup ScoreCalls :
        /\ request = [tool |-> c.tool, a |-> c.a, b |-> c.b]
        /\ unpadded = <<c.ua, c.ub>>
    /\ phase = "pending"
    /\ core = NoOutcome
    /\ response = NoOutcome
    /\ frame = [c \in Callers |-> IdleFrame]

OptimizePromptTool ==
    /\ phase = "pending"
    /\ request.tool = "optimize_prompt_tool"
    /\ core' = optimize_prompt(request.a, request.b)
    /\ response' = optimize_prompt_tool(core')
    /\ phase' = "done"
    /\ UNCHANGED <<request, unpadded, frame>>

ScorePromptTool ==
    /\ phase = "pending"
    /\ request.tool = "score_prompt_tool"
    /\ \E tie_up \in BOOLEAN : core' = score_prompt(request.a, request.b, tie_up)
    /\ response' = score_prompt_tool(core')
    /\ phase' = "done"
    /\ UNCHANGED <<request, unpadded, frame>>

Next == OptimizePromptTool \/ ScorePromptTool

Spec == Init /\ [][Next]_vars


(***************************************************************************)
(* Concurrent callers of the two core functions.  Each call runs statement *)
(* by statement on the locals of its own frame; the statements of          *)
(* different calls interleave in any order.                                *)
(***************************************************************************)
ConcOptimizeCalls == {
    <<Str(<<"r","e","w","r","i","t","e"," ","i","t","."," ","W","r","i","t","e">>), Str(creative)>>,
    <<Str(<<" ","v","e","r","y"," ","x","!"," ","y"," ">>), Str(precise)>>,
    <<Str(<<" ","\n">>), Str(fast)>>,
    <<Str(<<"p","l","e","a","s","e"," ","x">>), Str(<<"v","e","r","b","o","s","e">>)>>,
    <<[t |-> "int", v |-> <<"7">>], Str(fast)>> }

ConcScoreCalls == {
    <<Str(<<"v","e","r","y"," ","a"," ","b"," ">>), Str(<<"A"," ","b">>)>>,
    <<Str(<<"j","u","s","t"," ","a"," ","v","e","r","y"," ","b"," ","c"," ","d"," ","e","\n">>), Str(<<" ","a">>)>>,
    <<Str(<<" ">>), Str(<<"a">>)>>,
    <<[t |-> "NoneType", v |-> <<"N","o","n","e">>], Str(<<"a">>)>> }

\* Faulty variant of the code: the locals are module-level variables, one set for every caller.
SharedLocals(c) == frame[CHOOSE d \in Callers : \A e \in Callers : d <= e]

\* The frame a statement of caller c reads its locals from: the call's own.
Locals(c) == frame[c]

At(c, pc, fn) == frame[c].pc = pc /\ frame[c].fn = fn

\* Caller c's frame becomes f; no other frame, and nothing of the server, changes.
Store(c, f) ==
    /\ frame' = [frame EXCEPT ![c] = f]
    /\ UNCHANGED <<request, unpadded, phase, core, response>>

\* The call of caller c ends with outcome: its locals are gone; its arguments, and
\* the direction its rounding took at a tie, stay on record beside the outcome.
FinishRounded(c, outcome, tie_up) ==
    Store(c, [IdleFrame EXCEPT !.pc = "done", !.fn = frame[c].fn, !.a = frame[c].a,
                               !.b = frame[c].b, !.tie_up = tie_up, !.ret = outcome])

Finish(c, outcome) == FinishRounded(c, outcome, FALSE)

CallOptimize(c) ==
    /\ frame[c].pc = "idle"
    /\ \E args \in ConcOptimizeCalls :
        Store(c, [IdleFrame EXCEPT !.pc = "validate", !.fn = "optimize_prompt",
                                   !.a = args[1], !.b = args[2]])

CallScore(c) ==
    /\ frame[c].pc = "idle"
    /\ \E args \in ConcScoreCalls :
        Store(c, [IdleFrame EXCEPT !.pc = "validate", !.fn = "score_prompt",
                                   !.a = args[1], !.b = args[2]])

\* optimize_prompt, lines 28-31.
OptValidate(c) ==
    /\ At(c, "validate", "optimize_prompt")
    /\ IF ~IsStr(Locals(c).a) THEN Finish(c, Raise("TypeError", raw_prompt_error))
       ELSE IF ~IsStr(Locals(c).b) \/ Locals(c).b.v \notin ValidStyles
            THEN Finish(c, Raise("TypeError", style_error))
       ELSE Store(c, [frame[c] EXCEPT !.pc = "normalize"])

\* optimize_prompt, lines 34-36.
OptNormalize(c) ==
    /\ At(c, "normalize", "optimize_prompt")
    /\ LET stripped == strip(Locals(c).a.v)
       IN  IF stripped = <<>> THEN Finish(c, ReturnVariants(<< <<>>, <<>>, <<>> >>))
           ELSE Store(c, [frame[c] EXCEPT !.pc = "split", !.raw_prompt = stripped])

\* optimize_prompt, lines 39-40.
OptSplit(c) ==
    /\ At(c, "split", "optimize_prompt")
    /\ Store(c, [frame[c] EXCEPT !.pc = "dispatch",
                                 !.sentences = split_sentences(Locals(c).raw_prompt)])

\* optimize_prompt, lines 42-47.
OptDispatch(c) ==
    /\ At(c, "dispatch", "optimize_prompt")
    /\ Finish(c, ReturnVariants(dispatch_style(Locals(c).raw_prompt, Locals(c).sentences,
                                               Locals(c).b.v)))

\* score_prompt, lines 194-195.
ScoreValidate(c) ==
    /\ At(c, "validate", "score_prompt")
    /\ IF ~IsStr(Locals(c).a) \/ ~IsStr(Locals(c).b)
       THEN Finish(c, Raise("TypeError", score_error))
       ELSE Store(c, [frame[c] EXCEPT !.pc = "edge"])

\* score_prompt, lines 198-202.
ScoreEdgeCases(c) ==
    /\ At(c, "edge", "score_prompt")
    /\ IF strip(Locals(c).a.v) = <<>>
       THEN Finish(c, ReturnScore(IF strip(Locals(c).b.v) # <<>> THEN 0 ELSE 1000))
       ELSE IF strip(Locals(c).b.v) = <<>> THEN Finish(c, ReturnScore(0))
       ELSE Store(c, [frame[c] EXCEPT !.pc = "normalize"])

\* score_prompt, lines 205-206.
ScoreNormalize(c) ==
    /\ At(c, "normalize", "score_prompt")
    /\ Store(c, [frame[c] EXCEPT !.pc = "compute",
                                 !.raw_prompt = strip(Locals(c).a.v),
                                 !.improved_prompt = strip(Locals(c).b.v)])

\* score_prompt, lines 209-273.
ScoreCompute(c) ==
    /\ At(c, "compute", "score_prompt")
    /\ \E tie_up \in BOOLEAN :
        FinishRounded(c, ReturnScore(full_score(Locals(c).raw_prompt,
                                                Locals(c).improved_prompt, tie_up)), tie_up)

\* The caller has its result and may call again.
TakeResult(c) ==
    /\ frame[c].pc = "done"
    /\ Store(c, IdleFrame)

ConcInit ==
    /\ request = [tool |-> "none"]
    /\ unpadded = <<>>
    /\ phase = "none"
    /\ core = NoOutcome
    /\ response = NoOutcome
    /\ frame = [c \in Callers |-> IdleFrame]

ConcNext ==
    \E c \in Callers :
        \/ CallOptimize(c)
        \/ CallScore(c)
        \/ OptValidate(c)
        \/ OptNormalize(c)
        \/ OptSplit(c)
        \/ OptDispatch(c)
        \/ ScoreValidate(c)
        \/ ScoreEdgeCases(c)
        \/ ScoreNormalize(c)
        \/ ScoreCompute(c)
        \/ TakeResult(c)

ConcSpec == ConcInit /\ [][ConcNext]_vars

(***************************************************************************)
(* The properties.                                                         *)
(***************************************************************************)
Done == phase = "done"

ScoreDone == Done /\ request.tool = "score_prompt_tool"

\* optimize_prompt_tool has run on a str prompt with the given valid style.
Styled(style) ==
    /\ Done
    /\ request.tool = "optimize_prompt_tool"
    /\ IsStr(request.a)
    /\ request.b = Str(style)

\* The trimmed prompt of the request.
Trimmed == strip(request.a.v)

\* The trimmed text has a character outside whitespace and sentence punctuation, which
\* is when it has a non-empty sentence segment.
HasSegment(s) == \E i \in 1..Len(s) : s[i] \notin SpaceChars \cup SentenceEnd

HasMatch(pat, s) == \E i \in 1..Len(s) : MatchLen(pat, s, i) > 0

\* The positions where lit stands as a case-insensitive whole word.
WholeWordAt(s, lit) == {i \in 1..Len(s) : LitAt(s, i, lit) /\ Boundary(s, i) /\ Boundary(s, i + Len(lit))}

\* out is s with exactly the occurrences of length n that start at the positions occ
\* replaced by phrase: every other character is where the replacements before it
\* moved it to.
ReplacedAt(s, out, occ, n, phrase) ==
    LET grow == Len(phrase) - n
        shift(j) == grow * Cardinality({i \in occ : i < j})
    IN  /\ Len(out) = Len(s) + grow * Cardinality(occ)
        /\ \A i \in occ : SubSeq(out, i + shift(i), i + shift(i) + Len(phrase) - 1) = phrase
        /\ \A j \in 1..Len(s) :
            (\A i \in occ : j < i \/ j >= i + n) => out[j + shift(j)] = s[j]

SetMin(S) == CHOOSE x \in S : \A y \in S : x <= y

\* C1: whenever score_prompt returns, on any pair of strings, its score lies in
\* [0.0, 1.0] (0 to 1000 thousandths).
C1_ScoreInUnitInterval ==
    (ScoreDone /\ core.kind = "return") => (core.score >= 0 /\ core.score <= 1000)

\* C1 witness: full scoring ran where the improved text holds more than twice the
\* filler of the original, so that the clarity formula is clamped at 0.
C1_Witness ==
    /\ ScoreDone
    /\ core.kind = "return"
    /\ strip(request.a.v) # <<>>
    /\ redundant_count(strip(request.a.v)) > 0
    /\ redundant_count(strip(request.b.v)) > 2 * redundant_count(strip(request.a.v))

\* C2: optimize_prompt with a style outside {creative, precise, fast} raises TypeError
\* and returns no variants, whatever the prompt, the empty and blank ones included.
C2_InvalidStyleRaises ==
    (/\ Done
     /\ request.tool = "optimize_prompt_tool"
     /\ request.b \notin {Str(s) : s \in ValidStyles})
    => (core.kind = "raise" /\ core.exc = "TypeError")

\* C2 witness: a blank str prompt was submitted with an unrecognized str style.
C2_Witness ==
    /\ Done
    /\ request.tool = "optimize_prompt_tool"
    /\ IsStr(request.a) /\ request.a.v # <<>> /\ Trimmed = <<>>
    /\ IsStr(request.b) /\ request.b.v \notin ValidStyles
    /\ core.kind = "raise"

\* C3 (as claimed): in creative variant 1 the first table verb that occurs as a whole
\* word has its phrase substituted, and variant 1 equals the trimmed prompt only when
\* no table verb occurs as a whole word.
C3_FirstWholeWordVerbReplaced ==
    Styled(creative) =>
        LET whole == {k \in 1..Len(enhanced_words) : WholeWordAt(Trimmed, enhanced_words[k][1]) # {}}
        IN  /\ whole # {} => Contains(core.variants[1], enhanced_words[SetMin(whole)][2])
            /\ core.variants[1] = Trimmed => whole = {}

\* The verb creative variant 1 substitutes in the request's prompt, 0 for none.
Selected == SelectedVerb(Trimmed)

SelectedAt == WholeWordAt(Trimmed, enhanced_words[Selected][1])

\* C4 (as claimed): when the selected verb occurs as a whole word several times, only
\* the leftmost occurrence is replaced and every other character is unchanged.
C4_OnlyLeftmostReplaced ==
    (Styled(creative) /\ Selected # 0 /\ Cardinality(SelectedAt) >= 2) =>
        ReplacedAt(Trimmed, core.variants[1], {SetMin(SelectedAt)},
                   Len(enhanced_words[Selected][1]), enhanced_words[Selected][2])

\* C4 (amended): creative variant 1 replaces every whole-word occurrence of the selected
\* verb by the mapped phrase and leaves every other character of the prompt unchanged.
C4_EveryOccurrenceReplaced ==
    (Styled(creative) /\ Selected # 0) =>
        ReplacedAt(Trimmed, core.variants[1], SelectedAt,
                   Len(enhanced_words[Selected][1]), enhanced_words[Selected][2])

\* C4 witness: the selected verb stands as a whole word at least twice in the prompt.
C4_Witness == Styled(creative) /\ Selected # 0 /\ Cardinality(SelectedAt) >= 2

\* C5 (as claimed): creative variant 2 starts with the fixed phrase for every prompt.
C5_Variant2AlwaysImagines ==
    Styled(creative) => StartsWith(core.variants[2], engaging_start)

\* C5 (amended): creative variant 2 is the fixed phrase followed by the trimmed prompt
\* when the trimmed prompt has a non-empty sentence segment; for an empty, blank or
\* punctuation-only prompt it is the trimmed prompt itself.
C5_Variant2ImaginesWithSegment ==
    Styled(creative) =>
        core.variants[2] = (IF HasSegment(Trimmed) THEN engaging_start \o Trimmed ELSE Trimmed)

\* C5 witness: a creative request whose prompt has a sentence segment, and punctuation.
C5_Witness ==
    Styled(creative) /\ HasSegment(Trimmed) /\ \E i \in 1..Len(Trimmed) : Trimmed[i] = "."

RECURSIVE SumOccurrences(_, _)
SumOccurrences(parts, lit) ==
    IF parts = <<>> THEN 0
    ELSE Occurrences(Head(parts), lit) + SumOccurrences(Tail(parts), lit)

\* The sentence segments of the request's prompt.
Segments == split_sentences(Trimmed)

\* C6 (as claimed): with n >= 2 segments precise variant 2 starts with the bullet prefix
\* and holds exactly n - 1 separators, whatever the segments contain.
C6_ExactlySegmentsMinusOne ==
    (Styled(precise) /\ Len(Segments) >= 2) =>
        /\ StartsWith(core.variants[2], bullet_prefix)
        /\ Occurrences(core.variants[2], bullet_separator) = Len(Segments) - 1

\* C6 (amended): with n >= 2 segments precise variant 2 starts with the bullet prefix and
\* holds n - 1 separators plus those the segments themselves contain: exactly n - 1
\* when no segment contains a newline followed by the bullet and a space.
C6_SegmentsMinusOnePlusOwn ==
    (Styled(precise) /\ Len(Segments) >= 2) =>
        /\ StartsWith(core.variants[2], bullet_prefix)
        /\ Occurrences(core.variants[2], bullet_separator)
            = Len(Segments) - 1 + SumOccurrences(Segments, bullet_separator)

\* C6 witness: two segments or more, one of them with a separator inside.
C6_Witness ==
    /\ Styled(precise)
    /\ Len(Segments) >= 2
    /\ SumOccurrences(Segments, bullet_separator) > 0

\* C7: the score of the padded arguments is the score of the arguments without the
\* padding (given the direction the rounding takes at a tie).
C7_PaddingInvariant ==
    (ScoreDone /\ IsStr(request.a) /\ IsStr(request.b)) =>
        \E tie_up \in BOOLEAN : core = score_prompt(unpadded[1], unpadded[2], tie_up)

\* C7 witness: full scoring ran on arguments both padded, where the padding put
\* whitespace behind a filler word at the end of the original.
C7_Witness ==
    /\ ScoreDone
    /\ IsStr(request.a) /\ IsStr(request.b)
    /\ request.a # unpadded[1]
    /\ request.b # unpadded[2]
    /\ strip(request.b.v) # <<>>
    /\ redundant_count(request.a.v) > redundant_count(unpadded[1].v)

DigitValue(c) == (CHOOSE i \in 1..10 : Digits[i] = c) - 1

\* The text reads d.ddd, and its digits are the score in thousandths.
ReadsAsScore(text, score) ==
    /\ Len(text) = 5
    /\ text[2] = "."
    /\ \A i \in {1, 3, 4, 5} : text[i] \in Range(Digits)
    /\ 1000 * DigitValue(text[1]) + 100 * DigitValue(text[3])
        + 10 * DigitValue(text[4]) + DigitValue(text[5]) = score

\* C8: a tool function always returns text.  When the core function raised, the text is
\* the failure prefix and the error's message, with no variant and no score in it; when
\* it returned, the text is the three labelled variants in order, or the score to three
\* decimals.
C8_ToolReturnsText ==
    Done =>
        /\ response.kind = "text"
        /\ core.kind = "raise" =>
            /\ response.text =
                (IF request.tool = "optimize_prompt_tool" THEN optimize_failed ELSE scoring_failed)
                    \o core.msg
            /\ ~Contains(response.text, <<"V","a","r","i","a","n","t"," ">>)
            /\ ~Contains(response.text, score_label)
        /\ (core.kind = "return" /\ request.tool = "optimize_prompt_tool") =>
            response.text = <<"V","a","r","i","a","n","t"," ","1",":"," ">> \o core.variants[1] \o <<"\n","\n","V","a","r","i","a","n","t"," ","2",":"," ">>
                \o core.variants[2] \o <<"\n","\n","V","a","r","i","a","n","t"," ","3",":"," ">> \o core.variants[3]
        /\ (core.kind = "return" /\ request.tool = "score_prompt_tool") =>
            /\ StartsWith(response.text, score_label)
            /\ ReadsAsScore(SubSeq(response.text, Len(score_label) + 1, Len(response.text)),
                            core.score)

\* C8 witness: the core function raised and the tool function answered.
C8_Witness == Done /\ core.kind = "raise" /\ response.kind = "text"

\* C9: under any interleaving of the callers' statements, a finished call's outcome is
\* that of the same call run alone on its own arguments.
C9_CallsIndependent ==
    \A c \in Callers :
        frame[c].pc = "done" =>
            frame[c].ret =
                (IF frame[c].fn = "optimize_prompt"
                 THEN optimize_prompt(frame[c].a, frame[c].b)
                 ELSE score_prompt(frame[c].a, frame[c].b, frame[c].tie_up))

\* C9 witness: one call has finished with variants while another caller, given other
\* arguments, stands in the middle of its own call.
C9_Witness ==
    \E c, d \in Callers :
        /\ frame[c].pc = "done" /\ frame[c].ret.kind = "return"
        /\ frame[d].pc \in {"split", "dispatch", "compute"}
        /\ frame[d].a # frame[c].a

\* C10 (as claimed): precise variant 1 holds no match of any of the eight filler
\* patterns, so the removal applied to it changes nothing.
C10_Variant1FixedPoint ==
    Styled(precise) =>
        /\ \A k \in 1..Len(redundant_patterns) : ~HasMatch(redundant_patterns[k], core.variants[1])
        /\ precise_variant1(core.variants[1]) = core.variants[1]

\* C10 (amended): precise variant 1 holds no match of the six single-word filler
\* patterns (very, quite, really, actually, just, simply); a match of "kind of" or
\* "sort of" can remain where a removal joined two fragments.
C10_NoSingleWordFillerLeft ==
    Styled(precise) =>
        \A k \in 1..6 : ~HasMatch(redundant_patterns[k], core.variants[1])

\* C10 witness: the prompt held single-word filler and a removal changed it.
C10_Witness ==
    /\ Styled(precise)
    /\ \E k \in 1..6 : HasMatch(redundant_patterns[k], Trimmed)
    /\ core.variants[1] # Trimmed

====
